---- MODULE Spec2Model ----
(***************************************************************************)
(* spectacle: opt-in runtime introspection.                                *)
(*                                                                         *)
(* Two state machines over one set of variables:                           *)
(*   Spec       the traversal (Introspect::introspect / introspect_from)   *)
(*              of one value, executed call by call on an explicit stack;  *)
(*   SpecDerive create_generic_ident of #[derive(Spectacle)], executed     *)
(*              one loop iteration at a time;                              *)
(*   SpecGenerate derive_spectacle on one declaration: the dispatch on the *)
(*              kind of the declaration, create_generic_ident, and the     *)
(*              implementation it emits.                                   *)
(***************************************************************************)
EXTENDS Integers, Sequences, FiniteSets, TLC

VARIABLES root, seed, stack, visits, prev, run,
          params, ident, n, pc, diag, overflowChecks, overflowed,
          input, out, errors

vars == <<root, seed, stack, visits, prev, run,
          params, ident, n, pc, diag, overflowChecks, overflowed,
          input, out, errors>>

travVars == <<root, seed, stack, visits, prev, run>>
genVars == <<input, out, errors>>
deriveVars == <<params, ident, n, pc, diag, overflowChecks, overflowed,
                input, out, errors>>

(***************************************************************************)
(* Bounds of the model.                                                    *)
(***************************************************************************)
\* nesting depth of the introspected value (0 = a primitive)
MaxDepth == 2
\* elements of a container, slots of a tuple, fields of a struct or variant
MaxWidth == 2
\* distinct primitive values
NumLeaf == 2
\* composite fields among the slots of one tuple, struct or variant
MaxNested == 1
\* a declaration may leave one of the first MaxHole + 1 candidates F, F0, .. free
MaxHole == 3

(***************************************************************************)
(* Text: a String or identifier is the sequence of its characters.         *)
(***************************************************************************)
DigitChars == <<"0", "1", "2", "3", "4", "5", "6", "7", "8", "9">>

\* format!("{}", n) of an unsigned integer: its decimal digits
RECURSIVE FormatDisplay(_)
FormatDisplay(k) ==
    IF k < 10 THEN <<DigitChars[k + 1]>>
    ELSE Append(FormatDisplay(k \div 10), DigitChars[(k % 10) + 1])

\* a map key: a u8 or a string (its characters)
U8Key(k) == [ty |-> "u8", num |-> k, chars |-> <<>>]
StrKey(s) == [ty |-> "str", num |-> 0, chars |-> s]

\* format!("{:?}", k): an integer prints its digits, a string is quoted
FormatDebug(k) ==
    IF k.ty = "u8" THEN FormatDisplay(k.num)
    ELSE <<"\"">> \o k.chars \o <<"\"">>

(***************************************************************************)
(* Path model.                                                             *)
(***************************************************************************)
Variant(name) == [tag |-> "Variant", text |-> name, pos |-> 0]
Field(name) == [tag |-> "Field", text |-> name, pos |-> 0]
Index(text) == [tag |-> "Index", text |-> text, pos |-> 0]
TupleIndex(i) == [tag |-> "TupleIndex", text |-> <<>>, pos |-> i]
SetMember == [tag |-> "SetMember", text |-> <<>>, pos |-> 0]

\* Breadcrumbs::new()
NewBreadcrumbs == <<>>

(***************************************************************************)
(* Values.  Every value is a record of the same fields:                    *)
(*   kind    which implementation of Introspect it has                     *)
(*   name    the container type ("HashSet", ...) where the order of        *)
(*           iteration depends on it                                       *)
(*   variant the active variant of an Option, a Result or a derived enum   *)
(*   val     the payload of a primitive                                    *)
(*   kids    the children, in field order / sorted order                   *)
(*   keys    the keys of a map, keys[i] being the key of kids[i]           *)
(*   decl    the declaration of a derived type: its variants (a struct     *)
(*           has one, unnamed)                                             *)
(***************************************************************************)
Node(kind, name, variant, val, kids, keys, decl) ==
    [kind |-> kind, name |-> name, variant |-> variant, val |-> val,
     kids |-> kids, keys |-> keys, decl |-> decl]

Chars_Some == <<"S", "o", "m", "e">>
Chars_None == <<"N", "o", "n", "e">>
Chars_Ok == <<"O", "k">>
Chars_Err == <<"E", "r", "r">>

Prim(v) == Node("prim", "u8", <<>>, v, <<>>, <<>>, <<>>)

(***************************************************************************)
(* Declarations handed to #[derive(Spectacle)].  Field types are the type  *)
(* parameters T0, T1, ... of the declaration.                              *)
(***************************************************************************)
FieldNames == << <<"f", "o", "o">>, <<"b", "a", "r">>, <<"b", "a", "z">>,
                 <<"q", "u", "x">>, <<"q", "u", "u", "x">> >>

TypePath(id) == [k |-> "Path", ident |-> id, elems |-> <<>>]
TypeParam(i) == TypePath(<<"T">> \o FormatDisplay(i))

UnitFields == [style |-> "Unit", names |-> <<>>, tys |-> <<>>]
NamedFields(k) ==
    [style |-> "Named", names |-> SubSeq(FieldNames, 1, k),
     tys |-> [i \in 1..k |-> TypeParam(i - 1)]]
UnnamedFields(k) ==
    [style |-> "Unnamed", names |-> <<>>, tys |-> [i \in 1..k |-> TypeParam(i - 1)]]

VariantDecl(name, fields) == [name |-> name, fields |-> fields]
\* a struct: one unnamed group of fields
StructDecl(fields) == <<VariantDecl(<<>>, fields)>>
\* enum E<T0, ..> { A, B(T0, ..), C { foo: T0, .. } } with k fields in B and in C
EnumDecl(k) ==
    <<VariantDecl(<<"A">>, UnitFields),
      VariantDecl(<<"B">>, UnnamedFields(k)),
      VariantDecl(<<"C">>, NamedFields(k))>>

FieldCount(fields) == Len(fields.tys)

(***************************************************************************)
(* The values the traversal is run on: well-typed trees of bounded depth   *)
(* and width.                                                              *)
(***************************************************************************)
IsPrim(v) == v.kind = "prim"

\* Two values of one Rust type: the elements of an array, a list, a set or
\* a map all have the type T of the container.
RECURSIVE SameType(_, _)
SameType(a, b) ==
    /\ a.kind = b.kind
    /\ a.name = b.name
    /\ a.decl = b.decl
    /\ \A i \in 1..Len(a.keys) : \A j \in 1..Len(b.keys) : a.keys[i].ty = b.keys[j].ty
    /\ IF a.kind \in {"tuple", "struct"}
       THEN /\ Len(a.kids) = Len(b.kids)
            /\ \A i \in 1..Len(a.kids) : SameType(a.kids[i], b.kids[i])
       ELSE IF a.kind \in {"enum", "result"}
       THEN a.variant = b.variant =>
                \A i \in 1..Len(a.kids) : SameType(a.kids[i], b.kids[i])
       ELSE /\ a.kind = "array" => Len(a.kids) = Len(b.kids)
            /\ \A i \in 1..Len(a.kids) : \A j \in 1..Len(b.kids) :
                   SameType(a.kids[i], b.kids[j])

\* the elements of a homogeneous container
HomSeqs(sub, k) ==
    {s \in [1..k -> sub] : \A i, j \in 1..k : SameType(s[i], s[j])}

\* the slots of a tuple, the fields of a struct or of a variant
HetSeqs(sub, k) ==
    {s \in [1..k -> sub] : Cardinality({i \in 1..k : ~IsPrim(s[i])}) <= MaxNested}

\* the members of a set in ascending order: distinct primitives, or one
\* composite member
SortedSeqs(sub, k) ==
    {s \in HomSeqs(sub, k) :
        /\ k > 1 => \A i \in 1..k : IsPrim(s[i])
        /\ \A i \in 1..(k - 1) : s[i].val < s[i + 1].val}

\* the vector inside a BinaryHeap: every element is at most its parent
HeapSeqs(sub, k) ==
    {s \in HomSeqs(sub, k) :
        /\ k > 1 => \A i \in 1..k : IsPrim(s[i])
        /\ \A i \in 2..k : s[i \div 2].val >= s[i].val}

Letters == <<"a", "b", "c", "d", "e">>
KeyOf(ty, i) == IF ty = "u8" THEN U8Key(5 * i) ELSE StrKey(<<Letters[i]>>)

\* the keys of a map of k entries, in ascending order: 5, 10, .. or "a", "b", ..
KeySeqs(k) == {[i \in 1..k |-> KeyOf(ty, i)] : ty \in {"u8", "str"}}

Composites(sub) ==
    LET W == 0..MaxWidth IN
    UNION {
      {Node("array", "array", <<>>, 0, s, <<>>, <<>>) : s \in UNION {HomSeqs(sub, k) : k \in W}},
      {Node("list", "Vec", <<>>, 0, s, <<>>, <<>>) : s \in UNION {HomSeqs(sub, k) : k \in W}},
      {Node("tuple", "tuple", <<>>, 0, s, <<>>, <<>>) : s \in UNION {HetSeqs(sub, k) : k \in W}},
      {Node("option", "Option", Chars_None, 0, <<>>, <<>>, <<>>)},
      {Node("option", "Option", Chars_Some, 0, <<t>>, <<>>, <<>>) : t \in sub},
      {Node("result", "Result", v, 0, <<t>>, <<>>, <<>>) : v \in {Chars_Ok, Chars_Err}, t \in sub},
      {Node("set", nm, <<>>, 0, s, <<>>, <<>>) :
          nm \in {"HashSet", "BTreeSet"}, s \in UNION {SortedSeqs(sub, k) : k \in W}},
      {Node("set", "BinaryHeap", <<>>, 0, s, <<>>, <<>>) : s \in UNION {HeapSeqs(sub, k) : k \in W}},
      UNION {{Node("map", nm, <<>>, 0, s, ks, <<>>) :
                 nm \in {"HashMap", "BTreeMap"}, s \in HomSeqs(sub, k), ks \in KeySeqs(k)} : k \in W},
      {Node("struct", "struct", <<>>, 0, <<>>, <<>>, StructDecl(UnitFields))},
      UNION {{Node("struct", "struct", <<>>, 0, s, <<>>, StructDecl(f)) :
                 s \in HetSeqs(sub, k), f \in {NamedFields(k), UnnamedFields(k)}} : k \in W},
      UNION {{Node("enum", "enum", <<"A">>, 0, <<>>, <<>>, EnumDecl(k))} : k \in W},
      UNION {{Node("enum", "enum", <<"B">>, 0, s, <<>>, EnumDecl(k)) : s \in HetSeqs(sub, k)} : k \in W},
      UNION {{Node("enum", "enum", <<"C">>, 0, s, <<>>, EnumDecl(k)) : s \in HetSeqs(sub, k)} : k \in W}
    }

Leaves == {Prim(v) : v \in 1..NumLeaf}

RECURSIVE Values(_)
Values(d) ==
    IF d = 0 THEN Leaves
    ELSE Leaves \cup Composites(Values(d - 1))

(***************************************************************************)
(* Iteration order of the std containers.  A HashSet or HashMap iterates   *)
(* in the order of its hashes, which its RandomState decides: seed is a    *)
(* permutation of the positions, drawn when the process builds the value.  *)
(* Every other container iterates in the order it stores its elements.     *)
(***************************************************************************)
Seeds == {p \in [1..MaxWidth -> 1..MaxWidth] : \A i, j \in 1..MaxWidth : p[i] = p[j] => i = j}
IdentitySeed == [i \in 1..MaxWidth |-> i]

IsHashed(v) == v.name \in {"HashSet", "HashMap"}

RECURSIVE HasHashed(_)
HasHashed(v) == IsHashed(v) \/ \E i \in 1..Len(v.kids) : HasHashed(v.kids[i])

\* the RandomState keys a process can draw for the value
SeedsFor(v) == IF HasHashed(v) THEN Seeds ELSE {IdentitySeed}

\* every set and map iterating in the order of its hashes
Iter_all_hashed(v, sd) ==
    LET m == Len(v.kids) IN
    IF v.kind \in {"set", "map"}
    THEN [j \in 1..m |-> CHOOSE i \in 1..m : Cardinality({i2 \in 1..m : sd[i2] < sd[i]}) = j - 1]
    ELSE [j \in 1..m |-> j]

\* self.iter(): the positions of the elements in the order they are yielded
Iter(v, sd) ==
    LET m == Len(v.kids) IN
    IF IsHashed(v)
    THEN [j \in 1..m |-> CHOOSE i \in 1..m : Cardinality({i2 \in 1..m : sd[i2] < sd[i]}) = j - 1]
    ELSE [j \in 1..m |-> j]

(***************************************************************************)
(* The body of an introspect_from: the visit of self and the calls into    *)
(* the children, in program order.  A call clones the trail, pushes the    *)
(* crumbs of `push` and descends into self.kids[arg].                      *)
(***************************************************************************)
VisitOp == [op |-> "visit", push |-> <<>>, arg |-> 0]
CallOp(push, arg) == [op |-> "call", push |-> push, arg |-> arg]

impl_primitive(self) == <<VisitOp>>

\* impl_array numbering the elements from 1
impl_array_from_1(self) ==
    <<VisitOp>> \o
    [i \in 1..Len(self.kids) |-> CallOp(<<Index(FormatDisplay(i))>>, i)]

impl_array(self) ==
    <<VisitOp>> \o
    [i \in 1..Len(self.kids) |-> CallOp(<<Index(FormatDisplay(i - 1))>>, i)]

impl_tuples(self) ==
    <<VisitOp>> \o
    [i \in 1..Len(self.kids) |-> CallOp(<<TupleIndex(i - 1)>>, i)]

Option_introspect_from(self) ==
    <<VisitOp>> \o
    (IF self.variant = Chars_Some THEN <<CallOp(<<Variant(Chars_Some)>>, 1)>> ELSE <<>>)

Result_introspect_from(self) ==
    <<VisitOp>> \o
    (IF self.variant = Chars_Ok THEN <<CallOp(<<Variant(Chars_Ok)>>, 1)>>
     ELSE <<CallOp(<<Variant(Chars_Err)>>, 1)>>)

\* impl_list visiting self after its elements
impl_list_self_last(self) ==
    [i \in 1..Len(self.kids) |-> CallOp(<<Index(FormatDisplay(i - 1))>>, i)] \o
    <<VisitOp>>

impl_list(self) ==
    <<VisitOp>> \o
    [i \in 1..Len(self.kids) |-> CallOp(<<Index(FormatDisplay(i - 1))>>, i)]

impl_set(self, sd) ==
    LET it == Iter(self, sd) IN
    <<VisitOp>> \o [j \in 1..Len(it) |-> CallOp(<<SetMember>>, it[j])]

\* impl_map tagging a value with its position, as impl_list does
impl_map_by_position(self, sd) ==
    LET it == Iter(self, sd) IN
    <<VisitOp>> \o
    [j \in 1..Len(it) |-> CallOp(<<Index(FormatDisplay(j - 1))>>, it[j])]

impl_map(self, sd) ==
    LET it == Iter(self, sd) IN
    <<VisitOp>> \o
    [j \in 1..Len(it) |-> CallOp(<<Index(FormatDebug(self.keys[it[j]]))>>, it[j])]

(***************************************************************************)
(* #[derive(Spectacle)]: the generator and the code it generates.          *)
(***************************************************************************)
UpperChars == <<"A", "B", "C", "D", "E", "F", "G", "H", "I", "J", "K", "L", "M",
                "N", "O", "P", "Q", "R", "S", "T", "U", "V", "W", "X", "Y", "Z">>
LowerChars == <<"a", "b", "c", "d", "e", "f", "g", "h", "i", "j", "k", "l", "m",
                "n", "o", "p", "q", "r", "s", "t", "u", "v", "w", "x", "y", "z">>

\* str::to_lowercase
to_lowercase(cs) ==
    [i \in 1..Len(cs) |->
        IF \E j \in 1..26 : UpperChars[j] = cs[i]
        THEN LowerChars[CHOOSE j \in 1..26 : UpperChars[j] = cs[i]]
        ELSE cs[i]]

\* names.join("_")
RECURSIVE join(_)
join(names) ==
    IF Len(names) = 0 THEN <<>>
    ELSE IF Len(names) = 1 THEN names[1]
    ELSE names[1] \o <<"_">> \o join(Tail(names))

NoneIdx == [some |-> FALSE, v |-> 0]
SomeIdx(i) == [some |-> TRUE, v |-> i]

\* the identifier bound to a positional field of a variant
RECURSIVE type_var(_, _)
type_var(t, idx) ==
    IF t.k \in {"Array", "Slice"} THEN type_var(t.elems[1], idx) \o <<"s">>
    ELSE IF t.k \in {"Group", "Paren", "Ptr", "Reference"} THEN type_var(t.elems[1], idx)
    ELSE LET id == IF t.k = "Path" THEN t.ident
                   ELSE IF t.k = "Tuple"
                   THEN join([i \in 1..Len(t.elems) |-> type_var(t.elems[i], NoneIdx)])
                   ELSE <<"_">> \o FormatDisplay(IF idx.some THEN idx.v ELSE 0)
         IN  IF idx.some THEN to_lowercase(id) \o FormatDisplay(idx.v) ELSE id

\* the expression a generated block reads its field through:
\* self.<ident> in a struct, the bound <ident> in a match arm
SelfMember(id) == [self |-> TRUE, ident |-> id]
Binding(id) == [self |-> FALSE, ident |-> id]

NoTokens == [some |-> FALSE, blocks |-> <<>>]
SomeTokens(blocks) == [some |-> TRUE, blocks |-> blocks]

\* recurse_fields numbering the positional fields from 1
recurse_fields_from_1(fields, access) ==
    IF fields.style = "Unit" THEN NoTokens
    ELSE IF fields.style = "Named"
    THEN SomeTokens([i \in 1..Len(fields.names) |->
                        [push |-> <<Field(fields.names[i])>>, field |-> access[i]]])
    ELSE SomeTokens([i \in 1..FieldCount(fields) |->
                        [push |-> <<TupleIndex(i)>>, field |-> access[i]]])

\* one generated block per field: clone the trail, push one crumb, recurse
recurse_fields(fields, access) ==
    IF fields.style = "Unit" THEN NoTokens
    ELSE IF fields.style = "Named"
    THEN SomeTokens([i \in 1..Len(fields.names) |->
                        [push |-> <<Field(fields.names[i])>>, field |-> access[i]]])
    ELSE SomeTokens([i \in 1..FieldCount(fields) |->
                        [push |-> <<TupleIndex(i - 1)>>, field |-> access[i]]])

\* the generated impl of a struct: the self-visit, then the blocks
impl_introspect_struct(fields) ==
    LET field_names ==
            [i \in 1..FieldCount(fields) |->
                IF fields.style = "Named" THEN SelfMember(fields.names[i])
                ELSE SelfMember(FormatDisplay(i - 1))]
        recurse == recurse_fields(fields, field_names)
    IN  [match |-> FALSE, blocks |-> recurse.blocks, arms |-> <<>>]

\* one match arm per variant that has fields
recurse_variants(variants) ==
    LET withFields == SelectSeq(variants, LAMBDA v : FieldCount(v.fields) > 0)
        Arm(variant) ==
            LET field_name ==
                    [i \in 1..FieldCount(variant.fields) |->
                        IF variant.fields.style = "Named" THEN variant.fields.names[i]
                        ELSE type_var(variant.fields.tys[i], SomeIdx(i - 1))]
            IN  [name |-> variant.name,
                 style |-> variant.fields.style,
                 field_names |-> field_name,
                 recurse |-> recurse_fields(variant.fields,
                                            [i \in 1..Len(field_name) |-> Binding(field_name[i])])]
    IN  [i \in 1..Len(withFields) |-> Arm(withFields[i])]

\* the generated impl of an enum: the self-visit, then a match on self
impl_introspect_enum(variants) ==
    [match |-> TRUE, blocks |-> <<>>, arms |-> recurse_variants(variants)]

\* The generated code at run time: the position in self.kids of the field an
\* access expression denotes.
\*   self.foo / self.0     the field of that name / that position
\*   Self::C { foo, bar }  binds each identifier to the field of its name
\*   Self::B(x, y)         binds the i-th identifier to the i-th field
FieldAt(self, arm, access) ==
    LET fields == (CHOOSE v \in {self.decl[i] : i \in 1..Len(self.decl)} :
                       v.name = self.variant).fields
    IN  IF fields.style = "Named"
        THEN CHOOSE i \in 1..Len(fields.names) : fields.names[i] = access.ident
        ELSE IF access.self
        THEN CHOOSE i \in 1..FieldCount(fields) : FormatDisplay(i - 1) = access.ident
        ELSE CHOOSE i \in 1..Len(arm.field_names) : arm.field_names[i] = access.ident

NoArm == [name |-> <<>>, style |-> "Unit", field_names |-> <<>>, recurse |-> NoTokens]

\* the generated match taking the arm of the last variant that has fields
\* whenever self has fields
generated_last_arm(impl, self) ==
    LET hits == SelectSeq(impl.arms, LAMBDA a : Len(self.kids) > 0)
        arm == IF impl.match /\ Len(hits) > 0 THEN hits[Len(hits)] ELSE NoArm
        blocks == IF impl.match THEN arm.recurse.blocks ELSE impl.blocks
    IN  <<VisitOp>> \o
        [i \in 1..Len(blocks) |-> CallOp(blocks[i].push, i)]

\* the body the generated impl executes on self
generated_introspect_from(impl, self) ==
    LET hits == SelectSeq(impl.arms, LAMBDA a : a.name = self.variant)
        arm == IF impl.match /\ Len(hits) > 0 THEN hits[1] ELSE NoArm
        blocks == IF impl.match THEN arm.recurse.blocks ELSE impl.blocks
    IN  <<VisitOp>> \o
        [i \in 1..Len(blocks) |-> CallOp(blocks[i].push, FieldAt(self, arm, blocks[i].field))]

\* dispatch on the type of self
introspect_from(self, sd) ==
    CASE self.kind = "prim" -> impl_primitive(self)
      [] self.kind = "array" -> impl_array(self)
      [] self.kind = "tuple" -> impl_tuples(self)
      [] self.kind = "option" -> Option_introspect_from(self)
      [] self.kind = "result" -> Result_introspect_from(self)
      [] self.kind = "list" -> impl_list(self)
      [] self.kind = "set" -> impl_set(self, sd)
      [] self.kind = "map" -> impl_map(self, sd)
      [] self.kind = "struct" ->
            generated_introspect_from(impl_introspect_struct(self.decl[1].fields), self)
      [] self.kind = "enum" ->
            generated_introspect_from(impl_introspect_enum(self.decl), self)

(***************************************************************************)
(* The traversal, one step at a time.  A frame of the stack is one         *)
(* activation of introspect_from: self, the trail it was handed, its body  *)
(* and the position in it.                                                 *)
(***************************************************************************)
Frame(self, breadcrumbs, sd) ==
    [self |-> self, breadcrumbs |-> breadcrumbs,
     body |-> introspect_from(self, sd), idx |-> 1]

Top == stack[Len(stack)]
Running == Len(stack) > 0
AtOp(kind) == Running /\ Top.idx <= Len(Top.body) /\ Top.body[Top.idx].op = kind
Done == run > 0 /\ ~Running

\* push_back on the trail of the caller itself, without the clone
push_back_in_place(breadcrumbs, push) ==
    [kept |-> breadcrumbs \o push, passed |-> breadcrumbs \o push]

\* let mut breadcrumbs = breadcrumbs.clone(); breadcrumbs.push_back(crumb);
\* the caller keeps `kept`, the callee is handed `passed`
clone_push_back(breadcrumbs, push) ==
    [kept |-> breadcrumbs, passed |-> breadcrumbs \o push]

NoRun == [log |-> <<>>, seed |-> IdentitySeed, fresh |-> FALSE]

\* value.introspect(visit): introspect_from with an empty trail
Introspect ==
    /\ run = 0
    /\ run' = 1
    /\ stack' = <<Frame(root, NewBreadcrumbs, seed)>>
    /\ UNCHANGED <<root, seed, visits, prev>>
    /\ UNCHANGED deriveVars

\* visit(&breadcrumbs, self)
Visit ==
    /\ AtOp("visit")
    /\ visits' = Append(visits, [trail |-> Top.breadcrumbs, value |-> Top.self])
    /\ stack' = [stack EXCEPT ![Len(stack)].idx = @ + 1]
    /\ UNCHANGED <<root, seed, prev, run>>
    /\ UNCHANGED deriveVars

\* child.introspect_from(breadcrumbs, &visit) on the cloned, extended trail
Call ==
    /\ AtOp("call")
    /\ LET o == Top.body[Top.idx]
           t == clone_push_back(Top.breadcrumbs, o.push)
       IN  stack' = Append([stack EXCEPT ![Len(stack)].idx = @ + 1,
                                         ![Len(stack)].breadcrumbs = t.kept],
                           Frame(Top.self.kids[o.arg], t.passed, seed))
    /\ UNCHANGED <<root, seed, visits, prev, run>>
    /\ UNCHANGED deriveVars

\* the end of an introspect_from
Return ==
    /\ Running
    /\ Top.idx > Len(Top.body)
    /\ stack' = SubSeq(stack, 1, Len(stack) - 1)
    /\ UNCHANGED <<root, seed, visits, prev, run>>
    /\ UNCHANGED deriveVars

\* the same value introspected a second time by the same process
IntrospectAgain ==
    /\ Done
    /\ run = 1
    /\ run' = 2
    /\ prev' = [log |-> visits, seed |-> seed, fresh |-> FALSE]
    /\ visits' = <<>>
    /\ stack' = <<Frame(root, NewBreadcrumbs, seed)>>
    /\ UNCHANGED <<root, seed>>
    /\ UNCHANGED deriveVars

\* the same value built and introspected by a fresh process: its hashed
\* containers get the RandomState of that process
IntrospectInFreshProcess ==
    /\ Done
    /\ run = 1
    /\ \E sd \in SeedsFor(root) :
          /\ seed' = sd
          /\ stack' = <<Frame(root, NewBreadcrumbs, sd)>>
    /\ run' = 2
    /\ prev' = [log |-> visits, seed |-> seed, fresh |-> TRUE]
    /\ visits' = <<>>
    /\ UNCHANGED root
    /\ UNCHANGED deriveVars

\* no declaration is handed to derive_spectacle
NoInput == [ident |-> <<>>, data |-> "None", variants |-> <<>>]

GenIdle ==
    /\ input = NoInput
    /\ out = <<>>
    /\ errors = <<>>

DeriveIdle ==
    /\ GenIdle
    /\ params = {}
    /\ ident = <<>>
    /\ n = 0
    /\ pc = "idle"
    /\ diag = FALSE
    /\ overflowChecks = FALSE
    /\ overflowed = FALSE

Init ==
    /\ root \in Values(MaxDepth)
    /\ seed \in SeedsFor(root)
    /\ stack = <<>>
    /\ visits = <<>>
    /\ prev = NoRun
    /\ run = 0
    /\ DeriveIdle

Next ==
    \/ Introspect
    \/ Visit
    \/ Call
    \/ Return
    \/ IntrospectAgain
    \/ IntrospectInFreshProcess

Spec == Init /\ [][Next]_vars

(***************************************************************************)
(* create_generic_ident, one loop iteration at a time.                     *)
(*   params  the declared generic parameters (generics.params)             *)
(*   ident   the candidate, `n` the u8 counter                             *)
(*   pc      "start", "test" (at the loop condition), "done" (returned),   *)
(*           "panic" (arithmetic overflow with overflow checks on)         *)
(*   diag    emit_error! has been called                                   *)
(***************************************************************************)
U8_MAX == 255

\* the i-th name the loop probes: F, then F0, F1, ...
Candidate(i) == IF i = 0 THEN <<"F">> ELSE <<"F">> \o FormatDisplay(i - 1)

ParamKinds == <<"Type", "Const", "Lifetime">>
GenericParam(kind, id) == [kind |-> kind, ident |-> id]

\* parameters that are no candidate: T0, 'a, f, F00
OtherParams ==
    {GenericParam("Type", <<"T", "0">>), GenericParam("Lifetime", <<"a">>),
     GenericParam("Const", <<"f">>), GenericParam("Type", <<"F", "0", "0">>)}

\* the declarations create_generic_ident is run on: the first k candidates
\* are declared (a few, or about as many as a u8 counts), but for at most one
\* of the first MaxHole + 1 of them; the kinds of the parameters rotate from
\* `off`
Declarations ==
    {OtherParams \cup
     {GenericParam(ParamKinds[((i + off) % 3) + 1], Candidate(i)) : i \in (0..(k - 1)) \ hole} :
        k \in {k \in 0..(U8_MAX + 2) : k <= MaxHole + 2 \/ k >= U8_MAX - 2},
        off \in 0..2, hole \in {{}} \cup {{h} : h \in 0..MaxHole}}

\* the comparison without the arm of the lifetime parameters
IsDeclared_no_lifetime(ps, id) ==
    \E param \in ps :
        \/ param.kind = "Type" /\ param.ident = id
        \/ param.kind = "Const" /\ param.ident = id

\* generics.params.iter().any(|param| ... == ident)
IsDeclared(ps, id) ==
    \E param \in ps :
        \/ param.kind = "Type" /\ param.ident = id
        \/ param.kind = "Const" /\ param.ident = id
        \/ param.kind = "Lifetime" /\ param.ident = id

\* let mut ident = Ident::new("F", ..); let mut n: u8 = 0;
CreateGenericIdent ==
    /\ pc = "start"
    /\ ident' = <<"F">>
    /\ n' = 0
    /\ pc' = "test"
    /\ UNCHANGED <<params, diag, overflowChecks, overflowed>>
    /\ UNCHANGED genVars
    /\ UNCHANGED travVars

\* one iteration of the while loop: the next candidate, the counter, the
\* diagnostic when the counter reaches u8::MAX.  n += 1 at u8::MAX panics
\* in a build with overflow checks and wraps to 0 in one without.
ProbeNext ==
    /\ pc = "test"
    /\ IsDeclared(params, ident)
    /\ ident' = <<"F">> \o FormatDisplay(n)
    /\ IF n + 1 > U8_MAX
       THEN /\ overflowed' = TRUE
            /\ IF overflowChecks
               THEN pc' = "panic" /\ n' = n /\ diag' = diag
               ELSE /\ pc' = "test"
                    /\ n' = (n + 1) % (U8_MAX + 1)
                    /\ diag' = (diag \/ (n + 1) % (U8_MAX + 1) = U8_MAX)
       ELSE /\ n' = n + 1
            /\ pc' = "test"
            /\ diag' = (diag \/ n + 1 = U8_MAX)
            /\ UNCHANGED overflowed
    /\ UNCHANGED <<params, overflowChecks>>
    /\ UNCHANGED genVars
    /\ UNCHANGED travVars

\* the loop condition is false: return ident
ReturnIdent ==
    /\ pc = "test"
    /\ ~IsDeclared(params, ident)
    /\ pc' = "done"
    /\ UNCHANGED <<params, ident, n, diag, overflowChecks, overflowed>>
    /\ UNCHANGED genVars
    /\ UNCHANGED travVars

TravIdle ==
    /\ root = Prim(1)
    /\ seed = IdentitySeed
    /\ stack = <<>>
    /\ visits = <<>>
    /\ prev = NoRun
    /\ run = 0

InitDerive ==
    /\ TravIdle
    /\ GenIdle
    /\ params \in Declarations
    /\ overflowChecks \in BOOLEAN
    /\ ident = <<>>
    /\ n = 0
    /\ pc = "start"
    /\ diag = FALSE
    /\ overflowed = FALSE

NextDerive ==
    \/ CreateGenericIdent
    \/ ProbeNext
    \/ ReturnIdent

SpecDerive == InitDerive /\ [][NextDerive]_vars

(***************************************************************************)
(* derive_spectacle on one declaration.                                    *)
(*   input   the parsed DeriveInput: the name of the type, the kind of its *)
(*           data and its fields (a struct and a union have one unnamed    *)
(*           group of fields); its generics are `params`                   *)
(*   out     the TokenStream returned: empty, or one impl                  *)
(*   errors  the diagnostics emitted by derive_spectacle and type_var      *)
(*   pc      "derive" (at the match on input.data), then the positions of  *)
(*           create_generic_ident, "finished" (out returned), "panic"      *)
(***************************************************************************)
\* fields of one positional group of a variant or a tuple struct
MaxPositional == 11
\* the positions among the first of a group whose type varies
MaxVaried == 2

TypeWrap(kind, elem) == [k |-> kind, ident |-> <<>>, elems |-> <<elem>>]
TypeTuple(elems) == [k |-> "Tuple", ident |-> <<>>, elems |-> elems]
\* a type type_var has no arm for: !, fn(), impl Trait, ...
TypeOther(kind) == [k |-> kind, ident |-> <<>>, elems |-> <<>>]

\* the declared types of the fields: T, T1, u8, [T; n], [T1], &T, *const T1,
\* (T), &[u8], [[T; n]; m], (T, u8), (T1,), (), !
FieldTypes ==
    LET t == TypePath(<<"T">>)
        t1 == TypePath(<<"T", "1">>)
        u8 == TypePath(<<"u", "8">>)
    IN  {t, t1, u8,
         TypeWrap("Array", t), TypeWrap("Slice", t1), TypeWrap("Reference", t),
         TypeWrap("Ptr", t1), TypeWrap("Paren", t), TypeWrap("Group", u8),
         TypeWrap("Reference", TypeWrap("Slice", u8)),
         TypeWrap("Array", TypeWrap("Array", t)),
         TypeTuple(<<t, u8>>), TypeTuple(<<t1>>), TypeTuple(<<>>),
         TypeOther("Never")}

\* k positional fields of type T, but for one of the first MaxVaried and for
\* the last, whose types are any of FieldTypes
PositionalFields ==
    {[style |-> "Unnamed", names |-> <<>>,
      tys |-> [p \in 1..k |-> IF p = k THEN b ELSE IF p = i THEN a
                                                ELSE TypePath(<<"T">>)]] :
        k \in 1..MaxPositional, i \in 1..MaxVaried, a \in FieldTypes, b \in FieldTypes}

Chars_breadcrumbs == <<"b", "r", "e", "a", "d", "c", "r", "u", "m", "b", "s">>
Chars_visit == <<"v", "i", "s", "i", "t">>

\* the names a declaration gives its fields
DeclFieldNames == {FieldNames[1], FieldNames[2], Chars_breadcrumbs, Chars_visit}

\* one or two named fields of distinct names
DeclNamedFields ==
    {[style |-> "Named", names |-> names,
      tys |-> [i \in 1..Len(names) |-> TypeParam(i - 1)]] :
        names \in {<<a>> : a \in DeclFieldNames} \cup
                  {ab \in DeclFieldNames \X DeclFieldNames : ab[1] # ab[2]}}

DeclFields == {UnitFields} \cup DeclNamedFields \cup PositionalFields

TypeNames == {<<"M", "y", "T", "y", "p", "e">>, <<"F">>}

DeriveInput(name, data, variants) == [ident |-> name, data |-> data, variants |-> variants]

\* struct MyType ..., enum MyType { A, V .. }, union MyType / F { .. }
DeriveInputs ==
    {DeriveInput(<<"M", "y", "T", "y", "p", "e">>, "Struct", StructDecl(f)) : f \in DeclFields}
    \cup {DeriveInput(<<"M", "y", "T", "y", "p", "e">>, "Enum",
                      <<VariantDecl(<<"A">>, UnitFields), VariantDecl(<<"V">>, f)>>) :
             f \in DeclFields}
    \cup {DeriveInput(name, "Union", StructDecl(f)) : name \in TypeNames, f \in DeclNamedFields}

\* the generics of the declaration: none, <T0, 'a, f, F00>, and those with
\* the first candidates taken
DeriveGenerics ==
    {{}, OtherParams,
     OtherParams \cup {GenericParam("Type", Candidate(0))},
     OtherParams \cup {GenericParam("Lifetime", Candidate(0)),
                       GenericParam("Const", Candidate(1))}}

Span(of, id, pos) == [of |-> of, ident |-> id, pos |-> pos]
Diagnostic(span, msg) == [span |-> span, msg |-> msg]
UnionMessage == "Spectacle can only be derived for structs and enums"
TypeVarMessage == "cannot create appropriate type variable for this type"

\* the type parameters add_trait_bounds bounds by Introspect + 'static
add_trait_bounds(ps) == {param.ident : param \in {q \in ps : q.kind = "Type"}}

RECURSIVE SumSeq(_)
SumSeq(ns) == IF Len(ns) = 0 THEN 0 ELSE ns[1] + SumSeq(Tail(ns))

\* the number of emit_error! calls of type_var(t, _)
RECURSIVE type_var_errors(_)
type_var_errors(t) ==
    IF t.k = "Path" THEN 0
    ELSE IF t.k \in {"Array", "Slice", "Group", "Paren", "Ptr", "Reference", "Tuple"}
    THEN SumSeq([i \in 1..Len(t.elems) |-> type_var_errors(t.elems[i])])
    ELSE 1

\* format_ident!("{}", names.join("_")) panics on the empty name of ()
RECURSIVE type_var_panics(_)
type_var_panics(t) ==
    \/ t.k = "Tuple" /\ Len(t.elems) = 0
    \/ \E i \in 1..Len(t.elems) : type_var_panics(t.elems[i])

RECURSIVE Concat(_)
Concat(ss) == IF Len(ss) = 0 THEN <<>> ELSE ss[1] \o Concat(Tail(ss))

\* the diagnostics of the calls of type_var in recurse_variants, one call
\* per positional field, in the order of the variants and of their fields
recurse_variants_errors(variants) ==
    Concat([v \in 1..Len(variants) |->
        IF variants[v].fields.style # "Unnamed" THEN <<>>
        ELSE Concat([i \in 1..FieldCount(variants[v].fields) |->
                [c \in 1..type_var_errors(variants[v].fields.tys[i]) |->
                    Diagnostic(Span("type", variants[v].name, i - 1), TypeVarMessage)]])])

\* a call of type_var in recurse_variants panics
recurse_variants_panics(variants) ==
    \E v \in 1..Len(variants) :
        /\ variants[v].fields.style = "Unnamed"
        /\ \E i \in 1..FieldCount(variants[v].fields) :
              type_var_panics(variants[v].fields.tys[i])

\* the match on input.data with the union taken for a struct
derive_spectacle_union_as_struct(inp) ==
    IF inp.data = "Enum"
    THEN [errors |-> <<>>, call |-> "impl_introspect_enum"]
    ELSE [errors |-> <<>>, call |-> "impl_introspect_struct"]

\* the match on input.data: what is emitted and which generator is called
derive_spectacle(inp) ==
    IF inp.data = "Struct"
    THEN [errors |-> <<>>, call |-> "impl_introspect_struct"]
    ELSE IF inp.data = "Enum"
    THEN [errors |-> <<>>, call |-> "impl_introspect_enum"]
    ELSE [errors |-> <<Diagnostic(Span("ident", inp.ident, 0), UnionMessage)>>,
          call |-> "none"]


\* what an identifier written by the generated block of a match arm denotes:
\* the tokens of quote! and the names of the declaration share one scope, so
\* a binding of the pattern of the arm shadows a parameter of introspect_from
Resolve(arm, id) ==
    IF \E i \in 1..Len(arm.field_names) : arm.field_names[i] = id
    THEN "binding" ELSE "parameter"

\* derive_spectacle up to its match on input.data
DeriveSpectacle ==
    /\ pc = "derive"
    /\ LET m == derive_spectacle(input) IN
       /\ errors' = errors \o m.errors
       /\ IF m.call = "none"
          THEN pc' = "finished" /\ out' = <<>>
          ELSE pc' = "start" /\ out' = out
    /\ UNCHANGED <<input, params, ident, n, diag, overflowChecks, overflowed>>
    /\ UNCHANGED travVars

\* impl_introspect_struct / impl_introspect_enum after create_generic_ident
\* has returned: the fields are walked and the impl is quoted
ImplIntrospect ==
    /\ pc = "done"
    /\ input.data # "None"
    /\ LET m == derive_spectacle(input)
           isEnum == m.call = "impl_introspect_enum"
           impl == IF isEnum THEN impl_introspect_enum(input.variants)
                   ELSE impl_introspect_struct(input.variants[1].fields)
       IN  IF isEnum /\ recurse_variants_panics(input.variants)
           THEN pc' = "panic" /\ UNCHANGED <<out, errors>>
           ELSE /\ pc' = "finished"
                /\ errors' = IF isEnum
                             THEN errors \o recurse_variants_errors(input.variants)
                             ELSE errors
                /\ out' = <<[f |-> ident, bounded |-> add_trait_bounds(params),
                             impl |-> impl]>>
    /\ UNCHANGED <<input, params, ident, n, diag, overflowChecks, overflowed>>
    /\ UNCHANGED travVars

InitGenerate ==
    /\ TravIdle
    /\ input \in DeriveInputs
    /\ params \in DeriveGenerics
    /\ out = <<>>
    /\ errors = <<>>
    /\ overflowChecks = TRUE
    /\ ident = <<>>
    /\ n = 0
    /\ pc = "derive"
    /\ diag = FALSE
    /\ overflowed = FALSE

NextGenerate ==
    \/ DeriveSpectacle
    \/ CreateGenericIdent
    \/ ProbeNext
    \/ ReturnIdent
    \/ ImplIntrospect

SpecGenerate == InitGenerate /\ [][NextGenerate]_vars

(***************************************************************************)
(* What the claims speak of: the tree of a value and the log of visits.    *)
(***************************************************************************)
\* the children of v in the order v yields them
ChildSeq(v) == LET it == Iter(v, seed) IN [j \in 1..Len(it) |-> v.kids[it[j]]]

\* the number of nodes of the tree of v
RECURSIVE Size(_)
RECURSIVE SumSize(_)
Size(v) == 1 + SumSize(v.kids)
SumSize(vs) == IF Len(vs) = 0 THEN 0 ELSE Size(vs[1]) + SumSize(Tail(vs))

RECURSIVE Flatten(_)
Flatten(ss) == IF Len(ss) = 0 THEN <<>> ELSE ss[1] \o Flatten(Tail(ss))

\* the nodes of the tree of v in pre-order, each with its depth
RECURSIVE PreOrder(_, _)
PreOrder(v, depth) ==
    <<[value |-> v, depth |-> depth]>> \o
    Flatten([j \in 1..Len(v.kids) |-> PreOrder(ChildSeq(v)[j], depth + 1)])

\* when the node visited at position p is v: the position of the visit of
\* its j-th child, and the position after the visits of its subtree
ChildPos(p, v, j) == p + 1 + SumSize(SubSeq(ChildSeq(v), 1, j - 1))
EndPos(p, v) == p + Size(v)

IsPrefix(s, t) == Len(s) <= Len(t) /\ SubSeq(t, 1, Len(s)) = s

Visited == 1..Len(visits)

\* the fields of the active variant of a derived value (of the struct)
ActiveFields(v) ==
    (CHOOSE d \in {v.decl[i] : i \in 1..Len(v.decl)} : d.name = v.variant).fields

\* the crumb of the i-th declared field
FieldCrumb(fields, i) ==
    IF fields.style = "Named" THEN Field(fields.names[i]) ELSE TupleIndex(i - 1)

(***************************************************************************)
(* C1: the visits of introspect are the pre-order depth-first enumeration  *)
(* of the tree of the value: the root first with the empty trail, every    *)
(* node once per site, a parent before its descendants, and nothing else.  *)
(***************************************************************************)
C1_PreOrder ==
    LET po == PreOrder(root, 0) IN
    /\ Len(visits) <= Len(po)
    /\ \A i \in Visited :
          /\ visits[i].value = po[i].value
          /\ Len(visits[i].trail) = po[i].depth
    /\ Len(visits) > 0 => visits[1] = [trail |-> <<>>, value |-> root]
    /\ Done => Len(visits) = Len(po)

C1_Witness ==
    /\ Done
    /\ Len(visits) >= 4
    /\ Len(root.kids) = 2
    /\ \E i \in Visited : Len(visits[i].trail) = 2

(***************************************************************************)
(* C2: a derived struct visited with trail t has each field visited in     *)
(* declaration order, the i-th with t extended by exactly Field(name) or   *)
(* TupleIndex(i).                                                          *)
(***************************************************************************)
C2_StructFields ==
    \A p \in Visited :
        LET v == visits[p].value
            t == visits[p].trail
        IN  v.kind = "struct" =>
              \A i \in 1..Len(v.kids) :
                  LET q == ChildPos(p, v, i) IN
                  /\ Done => q <= Len(visits)
                  /\ q <= Len(visits) =>
                        visits[q] = [trail |-> Append(t, FieldCrumb(v.decl[1].fields, i)),
                                     value |-> v.kids[i]]

C2_Witness ==
    /\ Done
    /\ \E p \in Visited :
          /\ visits[p].value.kind = "struct"
          /\ Len(visits[p].trail) = 1
          /\ Len(visits[p].value.kids) = 2
          /\ visits[p].value.decl[1].fields.style = "Named"
          /\ visits[p + 2].trail[2] = Field(<<"b", "a", "r">>)

(***************************************************************************)
(* C3: each field of the active variant V of a derived enum visited with   *)
(* trail t is visited with t + Variant(V) + Field(name) or                 *)
(* t + Variant(V) + TupleIndex(i); the elements of a field that is a       *)
(* sequence with that trail extended by Index(i).                          *)
(***************************************************************************)
C3_VariantSegment ==
    \A p \in Visited :
        LET v == visits[p].value
            t == visits[p].trail
        IN  v.kind = "enum" =>
              \A i \in 1..Len(v.kids) :
                  LET q == ChildPos(p, v, i)
                      ft == t \o <<Variant(v.variant), FieldCrumb(ActiveFields(v), i)>>
                      f == v.kids[i]
                  IN  q <= Len(visits) =>
                        /\ visits[q] = [trail |-> ft, value |-> f]
                        /\ f.kind \in {"array", "list"} =>
                              \A j \in 1..Len(f.kids) :
                                  LET e == ChildPos(q, f, j) IN
                                  e <= Len(visits) =>
                                      visits[e].trail = Append(ft, Index(FormatDisplay(j - 1)))

BuiltIn == {"prim", "array", "list", "tuple", "set", "map", "option", "result"}

\* the accessor of the child at position k of the built-in value v
Accessor(v, k) ==
    CASE v.kind \in {"array", "list"} -> Index(FormatDisplay(k - 1))
      [] v.kind = "tuple" -> TupleIndex(k - 1)
      [] v.kind = "set" -> SetMember
      [] v.kind = "map" -> Index(FormatDebug(v.keys[k]))
      [] v.kind \in {"option", "result"} -> Variant(v.variant)

C5_BuiltInTrail ==
    /\ Len(visits) > 0 => visits[1].trail = <<>>
    /\ \A p \in Visited :
          LET v == visits[p].value
              t == visits[p].trail
              it == Iter(v, seed)
          IN  v.kind \in BuiltIn =>
                /\ v.kind = "prim" \/ v.variant = Chars_None => Len(it) = 0
                /\ v.variant \in {Chars_Some, Chars_Ok, Chars_Err} => Len(it) = 1
                /\ EndPos(p, v) <= Len(visits) =>
                      Len(visits[EndPos(p, v)].trail) <= Len(t)
                /\ \A j \in 1..Len(it) :
                      LET q == ChildPos(p, v, j) IN
                      /\ Done => q <= Len(visits)
                      /\ q <= Len(visits) =>
                            visits[q] = [trail |-> Append(t, Accessor(v, it[j])),
                                         value |-> v.kids[it[j]]]

C5_Witness ==
    /\ Done
    /\ \E p \in Visited :
          /\ Len(visits[p].trail) = 2
          /\ visits[p].trail[1] = Index(<<"1">>)
          /\ visits[p].trail[2] = Variant(Chars_Some)
    /\ visits[1].value.kind = "array"

C7_SameSequenceAlways ==
    Done /\ run = 2 => visits = prev.log

\* a HashSet or HashMap of two or more entries is part of v
RECURSIVE HasHashedOrder(_)
HasHashedOrder(v) ==
    \/ IsHashed(v) /\ Len(v.kids) >= 2
    \/ \E i \in 1..Len(v.kids) : HasHashedOrder(v.kids[i])

(***************************************************************************)
(* C7, amended: the two sequences are identical when the second traversal  *)
(* is of the same value in the same process, or when no HashSet or HashMap *)
(* of two or more entries is part of the value; in every case the second   *)
(* traversal makes the same number of visits.                              *)
(***************************************************************************)
C7_SameSequence ==
    Done /\ run = 2 =>
        /\ Len(visits) = Len(prev.log)
        /\ ~prev.fresh \/ ~HasHashedOrder(root) => visits = prev.log

C7_Witness ==
    /\ Done
    /\ run = 2
    /\ prev.fresh
    /\ seed # prev.seed
    /\ HasHashed(root)
    /\ ~HasHashedOrder(root)
    /\ Len(visits) >= 3
    /\ visits = prev.log

C7_WitnessSameProcess ==
    /\ Done
    /\ run = 2
    /\ ~prev.fresh
    /\ HasHashedOrder(root)
    /\ seed # IdentitySeed
    /\ visits = prev.log

(***************************************************************************)
(* C8: extending a trail for a child never changes the trail of the        *)
(* parent: the trail passed to a child is the trail of the parent plus     *)
(* the segment of that child only, the trail a frame holds is the one it   *)
(* was visited with, and the trail of every visited node has the trail of  *)
(* each of its ancestors as a prefix.                                      *)
(***************************************************************************)
C8_TrailNotShared ==
    /\ \A d \in 2..Len(stack) :
          LET parent == stack[d - 1]
              call == parent.body[parent.idx - 1]
          IN  /\ Len(call.push) = 1
              /\ stack[d].breadcrumbs = parent.breadcrumbs \o call.push
    /\ \A d \in 1..Len(stack) :
          stack[d].idx > 1 =>
              \E p \in Visited :
                  visits[p] = [trail |-> stack[d].breadcrumbs, value |-> stack[d].self]
    /\ \A p \in Visited :
          LET v == visits[p].value
              t == visits[p].trail
          IN  /\ \A q \in (p + 1)..(EndPos(p, v) - 1) :
                    q <= Len(visits) =>
                        /\ IsPrefix(t, visits[q].trail)
                        /\ Len(visits[q].trail) > Len(t)
              /\ \A j \in 1..Len(v.kids) :
                    LET q == ChildPos(p, v, j) IN
                    q <= Len(visits) => Len(visits[q].trail) = Len(t) + 1

C8_Witness ==
    /\ Len(stack) = 2
    /\ stack[1].idx = 4
    /\ stack[2].idx = 2
    /\ Len(visits) = 4
    /\ Len(visits[3].trail) = 2
    /\ Len(visits[4].trail) = 1

(***************************************************************************)
(* What the claims on create_generic_ident speak of.                       *)
(***************************************************************************)
DeclaredNames == {param.ident : param \in params}

\* the first of F, F0, F1, ... that no parameter is named
FirstUnused ==
    Candidate(CHOOSE i \in 0..Cardinality(params) :
                  /\ Candidate(i) \notin DeclaredNames
                  /\ \A j \in 0..(i - 1) : Candidate(j) \in DeclaredNames)

\* every name the loop probes before its counter reaches u8::MAX is taken
WindowExhausted == \A i \in 0..U8_MAX : Candidate(i) \in DeclaredNames

(***************************************************************************)
(* C9: the identifier create_generic_ident returns is the first of F, F0,  *)
(* F1, ... that is the name of no declared type, const or lifetime         *)
(* parameter; it is never a declared name.                                 *)
(***************************************************************************)
C9_FirstUnused ==
    pc = "done" =>
        /\ ident = FirstUnused
        /\ ident \notin DeclaredNames

C9_Witness ==
    /\ pc = "done"
    /\ ident = <<"F", "2">>
    /\ GenericParam("Lifetime", <<"F", "1">>) \in params
    /\ GenericParam("Const", <<"F", "0">>) \in params
    /\ GenericParam("Type", <<"F">>) \in params
    /\ <<"F", "3">> \in DeclaredNames

(***************************************************************************)
(* C10: when every candidate of the search window is declared,             *)
(* create_generic_ident terminates and fails with its diagnostic; the      *)
(* counter never leaves the range of a u8 and the loop does not go on.     *)
(***************************************************************************)
C10_BoundedProbe ==
    WindowExhausted =>
        /\ ~overflowed
        /\ pc # "panic"
        /\ pc = "done" => diag
        /\ diag => n = U8_MAX

(***************************************************************************)
(* What the claims on derive_spectacle speak of.                           *)
(***************************************************************************)
\* the match arms of the impl derive_spectacle has returned for an enum
GeneratedArms ==
    IF pc = "finished" /\ input.data = "Enum" /\ Len(out) = 1
    THEN {out[1].impl.arms[a] : a \in 1..Len(out[1].impl.arms)}
    ELSE {}

(***************************************************************************)
(* C11: derive_spectacle on a union emits one diagnostic, at the name of   *)
(* the type, and returns an empty TokenStream, whatever the fields and the *)
(* generic parameters of the union: neither create_generic_ident nor a     *)
(* generator of an impl runs.  On a struct or an enum that diagnostic is   *)
(* never emitted, and what is returned is an impl.                         *)
(***************************************************************************)
C11_UnionRejected ==
    /\ input.data = "Union" =>
          /\ pc \in {"derive", "finished"}
          /\ ~diag
          /\ out = <<>>
          /\ pc = "finished" =>
                errors = <<Diagnostic(Span("ident", input.ident, 0), UnionMessage)>>
    /\ input.data \in {"Struct", "Enum"} =>
          /\ \A i \in 1..Len(errors) : errors[i].msg # UnionMessage
          /\ pc = "finished" => Len(out) = 1

C11_Witness ==
    /\ pc = "finished"
    /\ input.data = "Union"
    /\ input.ident = <<"F">>
    /\ GenericParam("Type", <<"F">>) \in params
    /\ input.variants[1].fields.names = <<Chars_visit, FieldNames[1]>>
    /\ Len(errors) = 1
    /\ errors[1].span.ident = <<"F">>
    /\ out = <<>>

(***************************************************************************)
(* C12: in the pattern generated for a variant with positional fields, the *)
(* identifiers type_var makes for two fields at different positions are    *)
(* different, whatever the types of the fields and however many there are. *)
(***************************************************************************)
C12_DistinctBindings ==
    \A arm \in GeneratedArms :
        arm.style = "Unnamed" =>
            \A i, j \in 1..Len(arm.field_names) :
                i # j => arm.field_names[i] # arm.field_names[j]

(***************************************************************************)
(* C13: create_generic_ident emits its diagnostic only when no candidate   *)
(* it probes is free: when it returns an identifier that is the name of no *)
(* declared parameter, it has emitted no diagnostic.                       *)
(***************************************************************************)
C13_DiagnosticOnlyWhenExhausted ==
    (pc = "done" /\ ident \notin DeclaredNames) => ~diag

(***************************************************************************)
(* C14: in the code generated for an enum no identifier bound by the       *)
(* pattern of a variant, declared or synthesized, is `breadcrumbs` or      *)
(* `visit`: in every block of every arm `breadcrumbs` is the trail handed  *)
(* to introspect_from and `visit` is its visitor.                          *)
(***************************************************************************)
C14_NoCapture ==
    \A arm \in GeneratedArms :
        /\ Resolve(arm, Chars_breadcrumbs) = "parameter"
        /\ Resolve(arm, Chars_visit) = "parameter"

====
